---- MODULE Spec2Model ----
(***************************************************************************)
(* Model of wandb_comparison.py: a CI script that looks up the run tagged  *)
(* "baseline" and a run given by id in a W&B project, formats the URL of   *)
(* the comparison view and writes it to report_url.txt.                    *)
(*                                                                         *)
(* One execution of main() is a walk of pc through                         *)
(*   validate -> login -> api -> baseline -> byid -> report -> write -> done*)
(* The process environment, the tracking service's project and the state   *)
(* of the file system are the inputs; the service may fault at any call.   *)
(* The script is launched again and again (one CI job after another), so   *)
(* report_url.txt of an earlier execution is there when a later one runs.  *)
(* The project is any sequence of runs, fixed along a behaviour.           *)
(***************************************************************************)
EXTENDS Integers, Sequences, FiniteSets, TLC

\* ------------------------------------------------------------------------
\* Bounds
\* ------------------------------------------------------------------------

\* at most this many runs in the service's project
MaxRuns == 2

\* ------------------------------------------------------------------------
\* Values
\* ------------------------------------------------------------------------

\* Optional[T]: None is the empty tuple, a value v is <<v>>
None == <<>>

Some(v) == <<v>>

\* Python truthiness of an Optional[str]: None and "" are falsy
Truthy(v) == v # None /\ v[1] # ""

\* the values os.getenv can give for each variable: unset, empty, or set
KeyValues == {None, Some(""), Some("k3y")}

EntityValues == {None, Some(""), Some("acme"), Some("team-b")}

ProjectValues == {None, Some(""), Some("proj")}

RunIdValues == {None, Some(""), Some("xyz789"), Some("abc123")}

Environments ==
    [WANDB_API_KEY : KeyValues, WANDB_ENTITY : EntityValues,
     WANDB_PROJECT : ProjectValues, RUN_ID : RunIdValues]

\* the runs the tracking service may hold: id, display name, tags
RunIds == {"abc123", "xyz789", "r3"}

TagSets == {{}, {"baseline"}}

RunName(id) == "run-" \o id

Runs == {[id |-> i, name |-> RunName(i), tags |-> t] : i \in RunIds, t \in TagSets}

\* a project is the sequence of its runs in the order the service lists
\* them (the order is the service's choice); run ids are unique
Projects ==
    {p \in UNION {[1..n -> Runs] : n \in 0..MaxRuns} :
        \A i, j \in 1..Len(p) : p[i].id = p[j].id => i = j}

\* what report_url.txt may hold before the first execution
StaleFiles == {None, Some("stale\n")}

\* ------------------------------------------------------------------------
\* String formatting
\* ------------------------------------------------------------------------

\* an f-string: the concatenation of its literal and substituted parts
RECURSIVE Format(_)
Format(parts) ==
    IF parts = <<>> THEN "" ELSE Head(parts) \o Format(Tail(parts))

\* ------------------------------------------------------------------------
\* The tracking service (wandb client library calls)
\* ------------------------------------------------------------------------

\* the server-side filter {"tags": {"$in": ["baseline"]}}
MatchesFilter(run) == "baseline" \in run.tags

\* api.runs without the tag filter: every run of the project
api_runs_unfiltered(project, fault) ==
    IF fault THEN [raised |-> TRUE, e |-> "CommError", runs |-> <<>>]
    ELSE [raised |-> FALSE, e |-> "", runs |-> project]

\* api.runs(path, filters=...): the matching runs in the service's order,
\* or an exception
api_runs(project, fault) ==
    IF fault THEN [raised |-> TRUE, e |-> "CommError", runs |-> <<>>]
    ELSE [raised |-> FALSE, e |-> "", runs |-> SelectSeq(project, MatchesFilter)]

\* api.run(path): the run with that id, or an exception when the service
\* faults or reports no such run
api_run(project, run_id, fault) ==
    LET found == SelectSeq(project, LAMBDA r : r.id = run_id)
    IN  IF fault THEN [raised |-> TRUE, e |-> "CommError", run |-> None]
        ELSE IF found = <<>>
             THEN [raised |-> TRUE, e |-> "Could not find run", run |-> None]
             ELSE [raised |-> FALSE, e |-> "", run |-> Some(Head(found))]

\* ------------------------------------------------------------------------
\* The script's functions
\* ------------------------------------------------------------------------

\* the last run listed instead of the first
NextOrNone_last(runs) == IF runs = <<>> THEN None ELSE Some(runs[Len(runs)])

\* next(runs, None)
NextOrNone(runs) == IF runs = <<>> THEN None ELSE Some(Head(runs))

\* get_baseline_run, as a function of the service's response: the value
\* returned and the lines printed
get_baseline_run(resp) ==
    IF resp.raised
    THEN [ret |-> None,
          out |-> <<Format(<<"Error fetching baseline run: ", resp.e>>)>>]
    ELSE LET baseline_run == NextOrNone(resp.runs)
         IN  IF baseline_run = None
             THEN [ret |-> None,
                   out |-> <<"Error: No run found with tag 'baseline'">>]
             ELSE [ret |-> baseline_run,
                   out |-> <<Format(<<"Found baseline run: ", baseline_run[1].id,
                                      " (", baseline_run[1].name, ")">>)>>]

\* get_run_by_id, as a function of the service's response
get_run_by_id(resp, run_id) ==
    IF resp.raised
    THEN [ret |-> None,
          out |-> <<Format(<<"Error fetching run ", run_id, ": ", resp.e>>)>>]
    ELSE [ret |-> resp.run,
          out |-> <<Format(<<"Found run: ", resp.run[1].id,
                             " (", resp.run[1].name, ")">>)>>]

\* the two run ids in the wrong order
create_comparison_report_swapped(ent, proj, base, comp) ==
    Some(Format(<<"https://wandb.ai/", ent, "/", proj,
                  "/compare?run=", comp.id, "&run=", base.id>>))

\* create_comparison_report: the f-string of line 86 (formatting strings
\* raises nothing, so the except branch returns nothing here)
create_comparison_report(ent, proj, base, comp) ==
    Some(Format(<<"https://wandb.ai/", ent, "/", proj,
                  "/compare?run=", base.id, "&run=", comp.id>>))

\* the file opened in append mode
WriteFile_append(old, data) ==
    IF old = None THEN Some(data) ELSE Some(old[1] \o data)

\* open("report_url.txt", "w") and f.write(data): the file is created or
\* truncated, then holds data
WriteFile(old, data) == Some(data)

\* ------------------------------------------------------------------------
\* State
\* ------------------------------------------------------------------------

VARIABLES
    pc,              \* position of the process: "idle" before the first launch
    environ,         \* the process environment
    service,         \* the project's runs at the tracking service
    calls,           \* the requests this execution has sent to the service
    fault,           \* the call at which the service faulted, or "none"
    wandb_api_key, entity, project, run_id,   \* main's locals (lines 97-100)
    baseline_run, comparison_run, report_url, \* main's locals (124, 131, 138)
    stdout,          \* the lines printed by this execution
    stderr,          \* the traceback of an uncaught exception
    exit_code,       \* the process exit status, None while running
    file,            \* contents of report_url.txt, None when it does not exist
    file_at_launch   \* contents of report_url.txt when this execution began

vars == <<pc, environ, service, calls, fault, wandb_api_key, entity, project,
          run_id, baseline_run, comparison_run, report_url, stdout, stderr,
          exit_code, file, file_at_launch>>

locals == <<wandb_api_key, entity, project, run_id>>

world == <<environ, service, file_at_launch>>

Init ==
    /\ pc = "idle"
    /\ environ = [WANDB_API_KEY |-> None, WANDB_ENTITY |-> None,
                  WANDB_PROJECT |-> None, RUN_ID |-> None]
    /\ service \in Projects
    /\ calls = <<>>
    /\ fault = "none"
    /\ wandb_api_key = None /\ entity = None /\ project = None /\ run_id = None
    /\ baseline_run = None /\ comparison_run = None /\ report_url = None
    /\ stdout = <<>>
    /\ stderr = <<>>
    /\ exit_code = None
    /\ file \in StaleFiles
    /\ file_at_launch = file

\* every exit reporting success
Exit_zero(code) ==
    /\ pc' = "done"
    /\ exit_code' = Some(0)

\* sys.exit(code)
Exit(code) ==
    /\ pc' = "done"
    /\ exit_code' = Some(code)

\* an exception nothing catches: the interpreter prints the traceback to
\* stderr and the process ends with status 1
Uncaught(e) ==
    /\ pc' = "done"
    /\ exit_code' = Some(1)
    /\ stderr' = <<Format(<<"Traceback (most recent call last): ", e>>)>>

\* ------------------------------------------------------------------------
\* Actions
\* ------------------------------------------------------------------------

\* the CI job starts the script: a fresh process in some environment,
\* against the same project
Launch ==
    /\ pc \in {"idle", "done"}
    /\ \E env \in Environments : environ' = env
    /\ UNCHANGED service
    /\ pc' = "validate"
    /\ calls' = <<>>
    /\ fault' = "none"
    /\ wandb_api_key' = None /\ entity' = None /\ project' = None /\ run_id' = None
    /\ baseline_run' = None /\ comparison_run' = None /\ report_url' = None
    /\ stdout' = <<>>
    /\ stderr' = <<>>
    /\ exit_code' = None
    /\ file_at_launch' = file
    /\ UNCHANGED file

\* the check of RUN_ID left out
FirstMissing_no_run_id(key, ent, proj, rid) ==
    IF ~Truthy(key) THEN "WANDB_API_KEY"
    ELSE IF ~Truthy(ent) THEN "WANDB_ENTITY"
    ELSE IF ~Truthy(proj) THEN "WANDB_PROJECT"
    ELSE ""

\* the first variable, in the order of the checks, that is unset or empty
FirstMissing(key, ent, proj, rid) ==
    IF ~Truthy(key) THEN "WANDB_API_KEY"
    ELSE IF ~Truthy(ent) THEN "WANDB_ENTITY"
    ELSE IF ~Truthy(proj) THEN "WANDB_PROJECT"
    ELSE IF ~Truthy(rid) THEN "RUN_ID"
    ELSE ""

\* main, lines 97-114: read the four variables and validate them
Validate ==
    /\ pc = "validate"
    /\ wandb_api_key' = environ.WANDB_API_KEY
    /\ entity' = environ.WANDB_ENTITY
    /\ project' = environ.WANDB_PROJECT
    /\ run_id' = environ.RUN_ID
    /\ LET missing == FirstMissing(environ.WANDB_API_KEY, environ.WANDB_ENTITY,
                                   environ.WANDB_PROJECT, environ.RUN_ID)
       IN  IF missing # ""
           THEN /\ stdout' = Append(stdout,
                        Format(<<"Error: ", missing, " environment variable not set">>))
                /\ Exit(1)
           ELSE /\ pc' = "login"
                /\ UNCHANGED <<stdout, exit_code>>
    /\ UNCHANGED <<world, calls, fault, baseline_run, comparison_run,
                   report_url, stderr, file>>

\* main, line 117: wandb.login(key=wandb_api_key), outside any try
Login ==
    /\ pc = "login"
    /\ calls' = Append(calls, [op |-> "login", arg |-> wandb_api_key[1]])
    /\ \E raised \in BOOLEAN :
          IF raised
          THEN /\ fault' = "login"
               /\ Uncaught("AuthenticationError")
          ELSE /\ pc' = "api"
               /\ UNCHANGED <<fault, exit_code, stderr>>
    /\ UNCHANGED <<world, locals, baseline_run, comparison_run, report_url,
                   stdout, file>>

\* main, lines 118-120: api = wandb.Api(), outside any try, and the banner
NewApi ==
    /\ pc = "api"
    /\ calls' = Append(calls, [op |-> "Api", arg |-> ""])
    /\ \E raised \in BOOLEAN :
          IF raised
          THEN /\ fault' = "Api"
               /\ Uncaught("CommError")
               /\ UNCHANGED stdout
          ELSE /\ pc' = "baseline"
               /\ stdout' = Append(stdout,
                       Format(<<"Entity: ", entity[1], ", Project: ", project[1],
                                ", Run ID: ", run_id[1]>>))
               /\ UNCHANGED <<fault, exit_code, stderr>>
    /\ UNCHANGED <<world, locals, baseline_run, comparison_run, report_url, file>>

\* the baseline lookup without the check of its result
FetchBaseline_nocheck ==
    /\ pc = "baseline"
    /\ calls' = Append(calls,
            [op |-> "runs", arg |-> Format(<<entity[1], "/", project[1]>>)])
    /\ \E raised \in BOOLEAN :
          LET r == get_baseline_run(api_runs(service, raised))
          IN  /\ fault' = IF raised THEN "runs" ELSE fault
              /\ baseline_run' = r.ret
              /\ stdout' = stdout \o <<"\nFetching baseline run...">> \o r.out
              /\ pc' = "byid"
              /\ UNCHANGED exit_code
    /\ UNCHANGED <<world, locals, comparison_run, report_url, stderr, file>>

\* main, lines 122-127: the baseline lookup and its check
FetchBaseline ==
    /\ pc = "baseline"
    /\ calls' = Append(calls,
            [op |-> "runs", arg |-> Format(<<entity[1], "/", project[1]>>)])
    /\ \E raised \in BOOLEAN :
          LET r == get_baseline_run(api_runs(service, raised))
          IN  /\ fault' = IF raised THEN "runs" ELSE fault
              /\ baseline_run' = r.ret
              /\ IF r.ret = None
                 THEN /\ stdout' = stdout \o <<"\nFetching baseline run...">> \o r.out
                                     \o <<"Failed to fetch baseline run">>
                      /\ Exit(1)
                 ELSE /\ stdout' = stdout \o <<"\nFetching baseline run...">> \o r.out
                      /\ pc' = "byid"
                      /\ UNCHANGED exit_code
    /\ UNCHANGED <<world, locals, comparison_run, report_url, stderr, file>>

\* the lookup by id without the check of its result
FetchComparison_nocheck ==
    /\ pc = "byid"
    /\ calls' = Append(calls,
            [op |-> "run", arg |-> Format(<<entity[1], "/", project[1], "/", run_id[1]>>)])
    /\ \E raised \in BOOLEAN :
          LET r == get_run_by_id(api_run(service, run_id[1], raised), run_id[1])
              fetching == Format(<<"\nFetching comparison run: ", run_id[1], "...">>)
          IN  /\ fault' = IF raised THEN "run" ELSE fault
              /\ comparison_run' = r.ret
              /\ stdout' = stdout \o <<fetching>> \o r.out
              /\ pc' = "report"
              /\ UNCHANGED exit_code
    /\ UNCHANGED <<world, locals, baseline_run, report_url, stderr, file>>

\* the lookup by id leaving an empty report_url.txt behind when it fails
FetchComparison_truncates ==
    /\ pc = "byid"
    /\ calls' = Append(calls,
            [op |-> "run", arg |-> Format(<<entity[1], "/", project[1], "/", run_id[1]>>)])
    /\ \E raised \in BOOLEAN :
          LET r == get_run_by_id(api_run(service, run_id[1], raised), run_id[1])
              fetching == Format(<<"\nFetching comparison run: ", run_id[1], "...">>)
          IN  /\ fault' = IF raised THEN "run" ELSE fault
              /\ comparison_run' = r.ret
              /\ IF r.ret = None
                 THEN /\ stdout' = stdout \o <<fetching>> \o r.out
                                     \o <<Format(<<"Failed to fetch run ", run_id[1]>>)>>
                      /\ file' = Some("")
                      /\ Exit(1)
                 ELSE /\ stdout' = stdout \o <<fetching>> \o r.out
                      /\ pc' = "report"
                      /\ UNCHANGED <<exit_code, file>>
    /\ UNCHANGED <<world, locals, baseline_run, report_url, stderr>>

\* main, lines 129-134: the lookup by id and its check
FetchComparison ==
    /\ pc = "byid"
    /\ calls' = Append(calls,
            [op |-> "run", arg |-> Format(<<entity[1], "/", project[1], "/", run_id[1]>>)])
    /\ \E raised \in BOOLEAN :
          LET r == get_run_by_id(api_run(service, run_id[1], raised), run_id[1])
              fetching == Format(<<"\nFetching comparison run: ", run_id[1], "...">>)
          IN  /\ fault' = IF raised THEN "run" ELSE fault
              /\ comparison_run' = r.ret
              /\ IF r.ret = None
                 THEN /\ stdout' = stdout \o <<fetching>> \o r.out
                                     \o <<Format(<<"Failed to fetch run ", run_id[1]>>)>>
                      /\ Exit(1)
                 ELSE /\ stdout' = stdout \o <<fetching>> \o r.out
                      /\ pc' = "report"
                      /\ UNCHANGED exit_code
    /\ UNCHANGED <<world, locals, baseline_run, report_url, stderr, file>>

\* main, lines 136-142: build the URL and check it
CreateReport ==
    /\ pc = "report"
    /\ LET url == create_comparison_report(entity[1], project[1],
                                            baseline_run[1], comparison_run[1])
       IN  /\ report_url' = url
           /\ IF url = None
              THEN /\ stdout' = stdout \o <<"\nCreating comparison report...",
                                            "Failed to create comparison report">>
                   /\ Exit(1)
              ELSE /\ stdout' = stdout \o <<"\nCreating comparison report...",
                                    Format(<<"Created comparison URL: ", url[1]>>)>>
                   /\ pc' = "write"
                   /\ UNCHANGED exit_code
    /\ UNCHANGED <<world, calls, fault, locals, baseline_run, comparison_run,
                   stderr, file>>

\* main, lines 144-150: report success, write report_url.txt, exit 0
WriteReport ==
    /\ pc = "write"
    /\ stdout' = Append(stdout,
            Format(<<"\nSuccess! Comparison report URL: ", report_url[1]>>))
    /\ file' = WriteFile(file, report_url[1])
    /\ Exit(0)
    /\ UNCHANGED <<world, calls, fault, locals, baseline_run, comparison_run,
                   report_url, stderr>>

Next ==
    \/ Launch
    \/ Validate
    \/ Login
    \/ NewApi
    \/ FetchBaseline
    \/ FetchComparison
    \/ CreateReport
    \/ WriteReport

Spec == Init /\ [][Next]_vars

\* ------------------------------------------------------------------------
\* Properties
\* ------------------------------------------------------------------------

\* msg is one of the lines this execution printed
Printed(msg) == \E i \in 1..Len(stdout) : stdout[i] = msg

\* the number of requests of kind op this execution sent
Count(op) == Cardinality({i \in 1..Len(calls) : calls[i].op = op})

Called(op) == Count(op) > 0

\* all four variables are set and not empty
EnvOK ==
    /\ Truthy(environ.WANDB_API_KEY)
    /\ Truthy(environ.WANDB_ENTITY)
    /\ Truthy(environ.WANDB_PROJECT)
    /\ Truthy(environ.RUN_ID)

\* the positions of the project's runs that carry the tag "baseline"
Tagged == {i \in 1..Len(service) : "baseline" \in service[i].tags}

\* the project has a run with this id
HasRun(id) == \E i \in 1..Len(service) : service[i].id = id

\* C1: create_comparison_report returns exactly
\* "https://wandb.ai/" + entity + "/" + project + "/compare?run=" +
\* baseline_id + "&run=" + comparison_id, the baseline id first; for acme,
\* proj, abc123, xyz789 it is the URL of the spec's example. The URL is a
\* function of these four values only.
C1_UrlFormat ==
    report_url # None =>
        /\ report_url[1] =
              "https://wandb.ai/" \o entity[1] \o "/" \o project[1]
                 \o "/compare?run=" \o baseline_run[1].id
                 \o "&run=" \o comparison_run[1].id
        /\ (/\ entity[1] = "acme" /\ project[1] = "proj"
            /\ baseline_run[1].id = "abc123" /\ comparison_run[1].id = "xyz789")
           => report_url[1] = "https://wandb.ai/acme/proj/compare?run=abc123&run=xyz789"

C1_Witness ==
    /\ report_url = Some("https://wandb.ai/acme/proj/compare?run=abc123&run=xyz789")
    /\ baseline_run # None /\ baseline_run[1].id = "abc123"
    /\ comparison_run # None /\ comparison_run[1].id = "xyz789"

\* C2: when one of the four variables is missing, the execution ends with
\* exit code 1 and has sent no request to the service: no login, no run
\* listing, no run fetch.
C2_MissingVariable ==
    (pc # "idle" /\ ~EnvOK) =>
        /\ calls = <<>>
        /\ pc \in {"validate", "done"}
        /\ pc = "done" => exit_code = Some(1)

C2_Witness ==
    /\ pc = "done"
    /\ environ.RUN_ID = None
    /\ Truthy(environ.WANDB_API_KEY)
    /\ Truthy(environ.WANDB_ENTITY)
    /\ Truthy(environ.WANDB_PROJECT)
    /\ exit_code = Some(1)
    /\ calls = <<>>

\* C3: a terminated execution has exit code 0 or 1, and 0 exactly when all
\* four variables were present, the baseline lookup returned a run and the
\* lookup by id returned a run; that is, exactly when the variables are
\* present, the service faulted at no call, the project has a run tagged
\* "baseline" and a run with the given id.
C3_ExitCode ==
    pc = "done" =>
        /\ exit_code \in {Some(0), Some(1)}
        /\ exit_code = Some(0) <=>
              (EnvOK /\ baseline_run # None /\ comparison_run # None)
        /\ exit_code = Some(0) <=>
              (EnvOK /\ fault = "none" /\ Tagged # {} /\ HasRun(environ.RUN_ID[1]))

C3_Witness ==
    /\ pc = "done"
    /\ exit_code = Some(0)
    /\ EnvOK
    /\ baseline_run # None
    /\ comparison_run # None

\* C4: after a successful execution report_url.txt holds the constructed URL
\* and nothing else, whatever it held before.
C4_FileIsUrl ==
    (pc = "done" /\ exit_code = Some(0)) =>
        /\ report_url # None
        /\ file = report_url
        /\ file = create_comparison_report(entity[1], project[1],
                                           baseline_run[1], comparison_run[1])

C4_Witness ==
    /\ pc = "done"
    /\ exit_code = Some(0)
    /\ file_at_launch # None
    /\ file_at_launch \notin StaleFiles
    /\ file_at_launch # file
    /\ file = report_url

\* C5: in a project with no run tagged "baseline" the baseline lookup
\* returns no run, and main ends with exit code 1 without the lookup by id.
C5_NoBaseline ==
    (Tagged = {} /\ Called("runs")) =>
        /\ baseline_run = None
        /\ pc = "done"
        /\ exit_code = Some(1)
        /\ ~Called("run")
        /\ comparison_run = None
        /\ fault = "none" => Printed("Error: No run found with tag 'baseline'")

C5_Witness ==
    /\ Tagged = {}
    /\ Len(service) > 0
    /\ Called("runs")
    /\ fault = "none"
    /\ pc = "done"
    /\ exit_code = Some(1)

\* C6: in a project with one or more runs tagged "baseline" the baseline
\* lookup returns the first of them in the service's order, however many
\* there are, and the run returned carries the tag.
C6_FirstBaseline ==
    (Tagged # {} /\ Called("runs") /\ fault # "runs") =>
        LET first == CHOOSE i \in Tagged : \A j \in Tagged : i <= j
        IN  /\ baseline_run = Some(service[first])
            /\ "baseline" \in baseline_run[1].tags
            /\ stderr = <<>>

C6_Witness ==
    /\ Cardinality(Tagged) >= 2
    /\ Called("runs")
    /\ fault = "none"
    /\ baseline_run = Some(service[1])
    /\ pc = "done"
    /\ exit_code = Some(0)

\* C7: for a run id that is not in the project the lookup by id returns no
\* run instead of raising, and main ends with exit code 1 with no URL built.
C7_UnknownRunId ==
    (Called("run") /\ ~HasRun(run_id[1])) =>
        /\ comparison_run = None
        /\ stderr = <<>>
        /\ Printed(Format(<<"Failed to fetch run ", run_id[1]>>))
        /\ pc = "done"
        /\ exit_code = Some(1)
        /\ report_url = None

C7_Witness ==
    /\ Called("run")
    /\ ~HasRun(run_id[1])
    /\ fault = "none"
    /\ Printed("Error fetching run xyz789: Could not find run")
    /\ pc = "done"
    /\ exit_code = Some(1)

\* C8: the lookup by id is attempted only after the baseline lookup returned
\* a run, the URL is built only after both lookups returned a run, and the
\* file is written only with a URL that was built.
C8_StepsInOrder ==
    /\ [](/\ Called("run") => (Called("runs") /\ baseline_run # None)
          /\ (Called("run") /\ Called("runs")) =>
                \E i, j \in 1..Len(calls) :
                    i < j /\ calls[i].op = "runs" /\ calls[j].op = "run"
          /\ pc \in {"report", "write"} =>
                (baseline_run # None /\ comparison_run # None)
          /\ report_url # None =>
                (baseline_run # None /\ comparison_run # None))
    /\ [][file' # file =>
             (pc = "write" /\ report_url # None /\ file' = report_url)]_vars

C8_Witness ==
    /\ pc = "done"
    /\ exit_code = Some(0)
    /\ Len(calls) = 4
    /\ calls[3].op = "runs"
    /\ calls[4].op = "run"
    /\ file = report_url

\* C9: a fault of the service at any call (login, client creation, run
\* listing, run fetch) is caught where it arises, a message is printed, the
\* execution ends with the failure exit, and no call is made twice.
C9_FaultsCaught ==
    /\ (pc = "done" /\ fault # "none") =>
          /\ exit_code = Some(1)
          /\ stderr = <<>>
          /\ stdout # <<>>
    /\ \A op \in {"login", "Api", "runs", "run"} : Count(op) <= 1

\* C10: an execution that ends with the failure exit leaves report_url.txt
\* as it was when the execution began.
C10_FailureKeepsFile ==
    (pc = "done" /\ exit_code = Some(1)) => file = file_at_launch

C10_Witness ==
    /\ pc = "done"
    /\ exit_code = Some(1)
    /\ Called("run")
    /\ file_at_launch # None
    /\ file_at_launch \notin StaleFiles
    /\ file = file_at_launch

====
